---- MODULE Spec2Model ----
(***************************************************************************)
(* Model of library_system.cpp: a catalog (LibraryManager) owning Book     *)
(* records, a chained hash table indexing them by id and an unbalanced     *)
(* binary search tree indexing them by title.                              *)
(*                                                                         *)
(* Pointers are handles: a Book* is the position of the record in `books`  *)
(* (records are never removed before teardown), a BSTNode* is the position *)
(* of the node in `nodes`, and 0 is nullptr.  A std::string title is the   *)
(* sequence of its character codes, compared as std::string compares.      *)
(***************************************************************************)
EXTENDS Integers, Sequences, FiniteSets, TLC

\* ---------------------------------------------------------------- bounds
MaxBooks == 3

Keys == {-1, 0, 1, 102}
Titles == {<<>>, <<1>>, <<1, 1>>, <<2>>}
Authors == {"x"}

\* ------------------------------------------------------------- constants
TABLE_SIZE == 101

nullptr == 0

\* books    LibraryManager::books, the owned records in insertion order
\* table    HashTable::table, TABLE_SIZE chains of Book*
\* wild     what out-of-range inserts wrote outside the table
\* nodes    the BSTNodes allocated so far; root is BST::root
\* pc       running, aborted (a fault), books_released, done
\* released the deletes performed by the destructors, in order
\* added    the arguments of the addBook calls that reported "Added"
\* out      what the last call showed its caller
VARIABLES books, table, wild, nodes, root, pc, released, added, out

vars == <<books, table, wild, nodes, root, pc, released, added, out>>

\* ------------------------------------------------------------------ Book
Book(_id, _title, _author) ==
    [id |-> _id, title |-> _title, author |-> _author, isAvailable |-> TRUE]

\* What printDetails shows of a record: id, title, author, availability.
printDetails(bs, p) == bs[p]

\* std::string operator< : lexicographic, a proper prefix sorts first.
RECURSIVE StrLess(_, _)
StrLess(a, b) ==
    IF b = <<>> THEN FALSE
    ELSE IF a = <<>> THEN TRUE
    ELSE IF Head(a) < Head(b) THEN TRUE
    ELSE IF Head(a) > Head(b) THEN FALSE
    ELSE StrLess(Tail(a), Tail(b))

\* ------------------------------------------------------------- HashTable
\* C++ `%` on int truncates toward zero: the result takes the sign of key.
CRem(a, b) == IF a >= 0 THEN a % b ELSE 0 - ((0 - a) % b)

hashFunction(key) == CRem(key, TABLE_SIZE)

InTable(index) == index \in 0..(TABLE_SIZE - 1)

\* The range-for of HashTable::search over one chain: first match or nullptr.
RECURSIVE scanBucket(_, _, _)
scanBucket(bs, bucket, id) ==
    IF bucket = <<>> THEN nullptr
    ELSE IF bs[Head(bucket)].id = id THEN Head(bucket)
    ELSE scanBucket(bs, Tail(bucket), id)

\* HashTable::search.  table[index] with index outside 0..TABLE_SIZE-1 is
\* an out-of-bounds access (undefined behaviour): the build may fault, may
\* walk garbage and find nothing, or may find what an earlier out-of-bounds
\* insert left at that address.
HashTable_search(bs, tbl, wld, id) ==
    LET index == hashFunction(id) IN
    IF InTable(index)
    THEN {[fault |-> FALSE, ret |-> scanBucket(bs, tbl[index], id)]}
    ELSE {[fault |-> TRUE, ret |-> nullptr], [fault |-> FALSE, ret |-> nullptr]}
         \cup {[fault |-> FALSE, ret |-> w.book] :
                 w \in {v \in wld : v.index = index /\ bs[v.book].id = id}}

\* HashTable::insert.  Out of bounds, the push_back either faults or lands
\* in memory outside the table (recorded in wld), leaving every bucket as
\* it was.
HashTable_insert(bs, tbl, wld, book) ==
    LET index == hashFunction(bs[book].id) IN
    IF InTable(index)
    THEN {[fault |-> FALSE,
           table |-> [tbl EXCEPT ![index] = Append(@, book)],
           wild |-> wld]}
    ELSE {[fault |-> TRUE, table |-> tbl, wild |-> wld],
          [fault |-> FALSE, table |-> tbl,
           wild |-> wld \cup {[index |-> index, book |-> book]}]}

\* ------------------------------------------------------------------- BST
BSTNode(b) == [book |-> b, left |-> nullptr, right |-> nullptr]

\* BST::insertRecursive: returns the heap of nodes after the insertion and
\* the pointer the caller stores back.  An equal title falls through both
\* comparisons and the reference is dropped.
\* A variant that descends right on an equal title instead of dropping it.
RECURSIVE insertRecursive_dupRight(_, _, _, _)
insertRecursive_dupRight(bs, ns, node, book) ==
    IF node = nullptr
    THEN [heap |-> Append(ns, BSTNode(book)), ret |-> Len(ns) + 1]
    ELSE IF StrLess(bs[book].title, bs[ns[node].book].title)
    THEN LET r == insertRecursive_dupRight(bs, ns, ns[node].left, book)
         IN  [heap |-> [r.heap EXCEPT ![node].left = r.ret], ret |-> node]
    ELSE LET r == insertRecursive_dupRight(bs, ns, ns[node].right, book)
         IN  [heap |-> [r.heap EXCEPT ![node].right = r.ret], ret |-> node]

RECURSIVE insertRecursive(_, _, _, _)
insertRecursive(bs, ns, node, book) ==
    IF node = nullptr
    THEN [heap |-> Append(ns, BSTNode(book)), ret |-> Len(ns) + 1]
    ELSE IF StrLess(bs[book].title, bs[ns[node].book].title)
    THEN LET r == insertRecursive(bs, ns, ns[node].left, book)
         IN  [heap |-> [r.heap EXCEPT ![node].left = r.ret], ret |-> node]
    ELSE IF StrLess(bs[ns[node].book].title, bs[book].title)
    THEN LET r == insertRecursive(bs, ns, ns[node].right, book)
         IN  [heap |-> [r.heap EXCEPT ![node].right = r.ret], ret |-> node]
    ELSE [heap |-> ns, ret |-> node]

\* BST::insert: root = insertRecursive(root, book).
BST_insert(bs, ns, rt, book) ==
    LET r == insertRecursive(bs, ns, rt, book)
    IN  [nodes |-> r.heap, root |-> r.ret]

\* BST::searchRecursive.
RECURSIVE searchRecursive(_, _, _, _)
searchRecursive(bs, ns, node, title) ==
    IF node = nullptr THEN nullptr
    ELSE IF bs[ns[node].book].title = title THEN ns[node].book
    ELSE IF StrLess(title, bs[ns[node].book].title)
    THEN searchRecursive(bs, ns, ns[node].left, title)
    ELSE searchRecursive(bs, ns, ns[node].right, title)

\* BST::search.
BST_search(bs, ns, rt, title) == searchRecursive(bs, ns, rt, title)

\* BST::inorderPrint: the records printed, in the order printed.
\* A variant that prints the node before its left subtree.
RECURSIVE inorderPrint_preorder(_, _, _)
inorderPrint_preorder(bs, ns, node) ==
    IF node = nullptr THEN <<>>
    ELSE <<printDetails(bs, ns[node].book)>>
         \o inorderPrint_preorder(bs, ns, ns[node].left)
         \o inorderPrint_preorder(bs, ns, ns[node].right)

RECURSIVE inorderPrint(_, _, _)
inorderPrint(bs, ns, node) ==
    IF node = nullptr THEN <<>>
    ELSE inorderPrint(bs, ns, ns[node].left)
         \o <<printDetails(bs, ns[node].book)>>
         \o inorderPrint(bs, ns, ns[node].right)

\* BST::printAll: an empty tree prints a message and no record.
printAll(bs, ns, rt) == IF rt = nullptr THEN <<>> ELSE inorderPrint(bs, ns, rt)

\* BST::deleteTree: the releases it performs, in order (post-order).
\* A variant in which the tree also deletes the record a node refers to.
RECURSIVE deleteTree_ownsBook(_, _)
deleteTree_ownsBook(ns, node) ==
    IF node # nullptr
    THEN deleteTree_ownsBook(ns, ns[node].left)
         \o deleteTree_ownsBook(ns, ns[node].right)
         \o <<[kind |-> "Book", ptr |-> ns[node].book],
              [kind |-> "BSTNode", ptr |-> node]>>
    ELSE <<>>

RECURSIVE deleteTree(_, _)
deleteTree(ns, node) ==
    IF node # nullptr
    THEN deleteTree(ns, ns[node].left)
         \o deleteTree(ns, ns[node].right)
         \o <<[kind |-> "BSTNode", ptr |-> node]>>
    ELSE <<>>

\* -------------------------------------------------------- LibraryManager
\* What the caller observes of a call: the operation, the id or title it
\* looked up, the bucket index an id was hashed to, the outcome and the
\* records printed.
Result(op, key, title, status, printed) ==
    [op |-> op, key |-> key, title |-> title,
     index |-> hashFunction(key), status |-> status, printed |-> printed]

Init ==
    /\ books = <<>>
    /\ table = [i \in 0..(TABLE_SIZE - 1) |-> <<>>]
    /\ wild = {}
    /\ nodes = <<>>
    /\ root = nullptr
    /\ pc = "running"
    /\ released = <<>>
    /\ added = <<>>
    /\ out = Result("init", 0, <<>>, "", <<>>)

\* LibraryManager::addBook.
addBook(id, title, author) ==
    /\ pc = "running"
    /\ \E s \in HashTable_search(books, table, wild, id) :
         IF s.fault
         THEN /\ pc' = "aborted"
              /\ out' = Result("addBook", id, <<>>, "fault", <<>>)
              /\ UNCHANGED <<books, table, wild, nodes, root, released, added>>
         ELSE IF s.ret # nullptr
         THEN /\ out' = Result("addBook", id, <<>>, "Error", <<>>)
              /\ UNCHANGED <<books, table, wild, nodes, root, pc, released, added>>
         ELSE /\ Len(books) < MaxBooks
              /\ LET bs == Append(books, Book(id, title, author))
                     newBook == Len(books) + 1
                 IN  /\ books' = bs
                     /\ \E h \in HashTable_insert(bs, table, wild, newBook) :
                          IF h.fault
                          THEN /\ pc' = "aborted"
                               /\ out' = Result("addBook", id, <<>>, "fault", <<>>)
                               /\ UNCHANGED <<table, wild, nodes, root, added>>
                          ELSE LET t == BST_insert(bs, nodes, root, newBook)
                               IN  /\ table' = h.table
                                   /\ wild' = h.wild
                                   /\ nodes' = t.nodes
                                   /\ root' = t.root
                                   /\ added' = Append(added,
                                         [id |-> id, title |-> title,
                                          author |-> author])
                                   /\ out' = Result("addBook", id, <<>>, "Added", <<>>)
                                   /\ pc' = pc
              /\ UNCHANGED released

\* LibraryManager::searchById.
searchById(id) ==
    /\ pc = "running"
    /\ \E s \in HashTable_search(books, table, wild, id) :
         IF s.fault
         THEN /\ pc' = "aborted"
              /\ out' = Result("searchById", id, <<>>, "fault", <<>>)
         ELSE /\ pc' = pc
              /\ out' = IF s.ret # nullptr
                        THEN Result("searchById", id, <<>>, "Found",
                                    <<printDetails(books, s.ret)>>)
                        ELSE Result("searchById", id, <<>>, "not found", <<>>)
    /\ UNCHANGED <<books, table, wild, nodes, root, released, added>>

\* LibraryManager::searchByTitle.
searchByTitle(title) ==
    /\ pc = "running"
    /\ LET res == BST_search(books, nodes, root, title)
       IN  out' = IF res # nullptr
                  THEN Result("searchByTitle", 0, title, "Found",
                              <<printDetails(books, res)>>)
                  ELSE Result("searchByTitle", 0, title, "not found", <<>>)
    /\ UNCHANGED <<books, table, wild, nodes, root, pc, released, added>>

\* LibraryManager::showAllBooks.
showAllBooks ==
    /\ pc = "running"
    /\ out' = Result("showAllBooks", 0, <<>>, "", printAll(books, nodes, root))
    /\ UNCHANGED <<books, table, wild, nodes, root, pc, released, added>>

\* LibraryManager::~LibraryManager, the destructor body: delete every book
\* of the owned collection, in order (books[i] holds the pointer i).
DtorLibraryManager ==
    /\ pc = "running"
    /\ released' = released
                   \o [i \in 1..Len(books) |-> [kind |-> "Book", ptr |-> i]]
    /\ pc' = "books_released"
    /\ out' = Result("~LibraryManager", 0, <<>>, "", <<>>)
    /\ UNCHANGED <<books, table, wild, nodes, root, added>>

\* BST::~BST, run for the member titleIndex once the destructor body is done.
DtorBST ==
    /\ pc = "books_released"
    /\ released' = released \o deleteTree(nodes, root)
    /\ pc' = "done"
    /\ out' = Result("~BST", 0, <<>>, "", <<>>)
    /\ UNCHANGED <<books, table, wild, nodes, root, added>>

Next ==
    \/ \E id \in Keys, title \in Titles, author \in Authors :
         addBook(id, title, author)
    \/ \E id \in Keys : searchById(id)
    \/ \E title \in Titles : searchByTitle(title)
    \/ showAllBooks
    \/ DtorLibraryManager
    \/ DtorBST

Spec == Init /\ [][Next]_vars

\* ================================================================ claims
\* The view a lookup must show for a record created from the arguments a.
View(a) == [id |-> a.id, title |-> a.title, author |-> a.author,
            isAvailable |-> TRUE]

AddedKeys == {added[i].id : i \in DOMAIN added}
AddedTitles == {added[i].title : i \in DOMAIN added}

\* The position in `added` of the first record added with title t.
FirstWithTitle(t) ==
    CHOOSE i \in DOMAIN added :
        /\ added[i].title = t
        /\ \A j \in DOMAIN added : added[j].title = t => i <= j

\* The nodes of the subtree rooted at node.
RECURSIVE Subtree(_, _)
Subtree(ns, node) ==
    IF node = nullptr THEN {}
    ELSE {node} \cup Subtree(ns, ns[node].left) \cup Subtree(ns, ns[node].right)

NodeTitle(n) == books[nodes[n].book].title

\* How many entries of the release log release object ptr of the given kind.
Releases(kind, ptr) ==
    Cardinality({k \in DOMAIN released :
                    released[k].kind = kind /\ released[k].ptr = ptr})

\* C1: an addBook whose key is already the key of a record of the owned
\* collection changes neither the collection, nor any bucket, nor the tree.
C1_DuplicateRejected ==
    [][(/\ out'.op = "addBook"
        /\ \E p \in DOMAIN books : books[p].id = out'.key)
       => (/\ books' = books
           /\ table' = table
           /\ nodes' = nodes
           /\ root' = root)]_vars

\* C2: no two records of the owned collection share a key; the collection
\* grows by exactly one record on a successful add and by none on a
\* rejected add.
C2_Uniqueness ==
    /\ [](\A p, q \in DOMAIN books : books[p].id = books[q].id => p = q)
    /\ [][/\ (out'.op = "addBook" /\ out'.status = "Added")
             => Len(books') = Len(books) + 1
          /\ (out'.op = "addBook" /\ out'.status = "Error")
             => Len(books') = Len(books)]_vars

\* C3: a lookup by the key of a successfully added record shows that record
\* with the key, title and author passed at creation and availability true;
\* a lookup by a key never added reports not found.
C3_ExactLookup ==
    out.op = "searchById" =>
        IF out.key \in AddedKeys
        THEN /\ out.status = "Found"
             /\ \E i \in DOMAIN added :
                    added[i].id = out.key /\ out.printed = <<View(added[i])>>
        ELSE out.status = "not found" /\ out.printed = <<>>

\* C4: the sorted listing is in non-decreasing lexicographic title order and
\* lists as many records as there are distinct titles among the records
\* successfully added (none on a fresh catalog).
C4_SortedTraversal ==
    out.op = "showAllBooks" =>
        /\ \A k \in 1..(Len(out.printed) - 1) :
               ~StrLess(out.printed[k + 1].title, out.printed[k].title)
        /\ Len(out.printed) = Cardinality(AddedTitles)

C4_Witness ==
    /\ out.op = "showAllBooks"
    /\ Len(out.printed) >= 2
    /\ Len(added) > Len(out.printed)
    /\ \A i \in DOMAIN added : added[i].id >= 0

\* C5: of several records added with the same title and distinct keys, each
\* is found by its key, a lookup by the title shows the first inserted of
\* them, and the sorted listing has exactly one entry with that title.
C5_DuplicateTitleShadowing ==
    \A i \in DOMAIN added :
        LET t == added[i].title IN
        (\E j \in DOMAIN added : j # i /\ added[j].title = t /\ added[j].id # added[i].id)
        => /\ (out.op = "searchById" /\ out.key = added[i].id)
              => (out.status = "Found" /\ out.printed = <<View(added[i])>>)
           /\ (out.op = "searchByTitle" /\ out.title = t)
              => out.printed = <<View(added[FirstWithTitle(t)])>>
           /\ out.op = "showAllBooks"
              => Cardinality({k \in DOMAIN out.printed :
                                out.printed[k].title = t}) = 1

\* C6: for a record whose title no earlier record has, the lookup by its key
\* and the lookup by its title both succeed and show the same record, with
\* the same key, title, author and availability.
C6_RoundTrip ==
    \A i \in DOMAIN added :
        (\A j \in 1..(i - 1) : added[j].title # added[i].title)
        => /\ (out.op = "searchById" /\ out.key = added[i].id)
              => out.printed = <<View(added[i])>>
           /\ (out.op = "searchByTitle" /\ out.title = added[i].title)
              => out.printed = <<View(added[i])>>

\* C7: every record of the owned collection is referenced from exactly one
\* bucket, exactly once, the bucket numbered key mod TABLE_SIZE; and a
\* bucket references only records of the owned collection.
C7_ExactIndexMembership ==
    /\ \A p \in DOMAIN books :
          /\ Cardinality({bk \in {<<b, k>> : b \in DOMAIN table, k \in 1..MaxBooks + 1} :
                             /\ bk[2] \in DOMAIN table[bk[1]]
                             /\ table[bk[1]][bk[2]] = p}) = 1
          /\ \E k \in DOMAIN table[books[p].id % TABLE_SIZE] :
                 table[books[p].id % TABLE_SIZE][k] = p
    /\ \A b \in DOMAIN table : \A k \in DOMAIN table[b] :
          table[b][k] \in DOMAIN books

\* C8: for every node of the tree, every title in its left subtree is
\* strictly less than the node's title and every title in its right subtree
\* strictly greater; no title is held by two nodes.
C8_SearchTreeInvariant ==
    /\ \A n \in Subtree(nodes, root) :
          /\ \A m \in Subtree(nodes, nodes[n].left) :
                 StrLess(NodeTitle(m), NodeTitle(n))
          /\ \A m \in Subtree(nodes, nodes[n].right) :
                 StrLess(NodeTitle(n), NodeTitle(m))
    /\ \A n, m \in Subtree(nodes, root) :
          NodeTitle(n) = NodeTitle(m) => n = m

C8_Witness ==
    /\ \E n \in Subtree(nodes, root) :
          nodes[n].left # nullptr /\ nodes[n].right # nullptr
    /\ \A i \in DOMAIN added : added[i].id >= 0

\* C9: once the destructor body has run every record of the owned
\* collection has been released exactly once and no node has; once the tree
\* is torn down every node has been released exactly once, and the releases
\* that follow the records' are releases of nodes only.
C9_TeardownSafety ==
    /\ pc \in {"books_released", "done"}
       => /\ \A p \in DOMAIN books : Releases("Book", p) = 1
          /\ \A k \in DOMAIN released :
                 released[k].kind = "Book" <=> k <= Len(books)
    /\ pc = "books_released" => Len(released) = Len(books)
    /\ pc = "done"
       => /\ \A n \in DOMAIN nodes : Releases("BSTNode", n) = 1
          /\ Len(released) = Len(books) + Len(nodes)

C9_Witness ==
    /\ pc = "done"
    /\ Len(nodes) >= 2
    /\ Len(books) > Len(nodes)
    /\ \A i \in DOMAIN added : added[i].id >= 0

\* C10: the bucket index computed for the key of an addBook or of a lookup
\* by key lies in 0..TABLE_SIZE-1.
C10_BucketIndexInRange ==
    out.op \in {"addBook", "searchById"} => out.index \in 0..(TABLE_SIZE - 1)

====
